---- MODULE Spec2Model ----
(***************************************************************************)
(* A model of the MicroBot client (src/microbot/__init__.py): the device   *)
(* session MicroBotApiClient (connect / disconnect / push_on / push_off /  *)
(* calibrate, the token handshake driven by notifications), the discovery  *)
(* scan GetMicroBotDevices.discover and the process-wide CONNECT_LOCK.     *)
(*                                                                         *)
(* Coroutines are tasks with a program counter; a step of a task is the    *)
(* code between two awaits.  The transport (bleak) is the environment: each*)
(* of its calls succeeds or fails nondeterministically, the link may drop  *)
(* at any time and the device may send any notification.                   *)
(***************************************************************************)
EXTENDS Integers, Sequences, FiniteSets, TLC

(***************************************************************************)
(* Bounds of the model.                                                    *)
(***************************************************************************)
\* sessions (MicroBotApiClient objects) in the process
NumSessions == 2
\* caller coroutines that may run an operation at the same time
NumTasks == 2
\* distinct token values (the constructor's and the device's)
NumTokens == 2
\* distinct transaction ids random.randrange may return
NumIds == 2

(***************************************************************************)
(* Program constants.                                                      *)
(***************************************************************************)
DEFAULT_RETRY_COUNT == 5

Sessions == 1..NumSessions
Tasks == 1..NumTasks
None == "None"

(***************************************************************************)
(* Bytes.  A frame is a sequence of bytes; the hex strings of the source   *)
(* are written here byte by byte.                                          *)
(***************************************************************************)
Byte == 0..255

Zeros(n) == [i \in 1..n |-> 0]

Fill(n, b) == [i \in 1..n |-> b]

\* Python's s[a:b] on a sequence (0-based, end exclusive, clipped, never raises)
Slice(s, a, b) ==
  LET lo == IF a > Len(s) THEN Len(s) ELSE a
      hi == IF b > Len(s) THEN Len(s) ELSE b
  IN  IF hi <= lo THEN << >> ELSE SubSeq(s, lo + 1, hi)

\* a 32-bit unsigned integer hi * 2^16 + lo, kept as its two 16-bit halves
U32(hi, lo) == << hi, lo >>

\* as ToBytesLE4, but most significant byte first
ToBytesBE4(n) ==
  << n[1] \div 256, n[1] % 256, n[2] \div 256, n[2] % 256 >>

\* int.to_bytes(4, "little")
ToBytesLE4(n) ==
  << n[2] % 256, n[2] \div 256, n[1] % 256, n[1] \div 256 >>

\* "{:04x}".format(random.randrange(2**16)), as two bytes
randomid(i) == << (i * \H5a) % 256, (i * \Hc3 + 1) % 256 >>

Ids == { randomid(i) : i \in 1..NumIds }

\* a token: 32 hex characters, i.e. 16 bytes; the device's tokens end in 4 zero bytes
Token(i) == Fill(12, i) \o Zeros(4)

Tokens == { Token(i) : i \in 1..NumTokens }

(***************************************************************************)
(* Frames (lines 276-455).                                                 *)
(***************************************************************************)
InitHeader(id) ==
  id \o << \H00,\H01,\H00,\H40,\He2,\H01,\H00,\Hfa,\H01,\H00,\H07,\H00,\H00,\H00,\H00,\H00,\H00,\H00 >>

InitValue(id, tok) == id \o << \H0f, \Hff >> \o Fill(12, \Hff) \o tok

GetTokenHeader(id) ==
  id \o << \H00,\H01,\H00,\H40,\He2,\H01,\H01,\Hfa,\H01,\H00,\H00,\H00,\H00,\H00,\H00,\H00,\H00,\H00 >>

GetTokenValue(id) == id \o << \H0f, \Hff >> \o Fill(8, \Hff) \o Zeros(8)

SetTokenHeader(id) ==
  id \o << \H00,\H01,\H00,\H00,\H00,\H00,\H00,\Hfa,\H00,\H00,\H07,\H00,\H00,\H00,\H00,\H00,\Hde,\Hcd >>

SetTokenValue(id, tok) == id \o << \H0f, \Hff >> \o tok

PushHeader(id) ==
  id \o << \H00,\H01,\H00,\H00,\H00,\H08,\H02,\H00,\H00,\H00,\H0a,\H00,\H00,\H00,\H00,\H00,\Hde,\Hcd >>

PushValue(id) == id \o << \H0f, \Hff >> \o Fill(4, \Hff) \o Zeros(12)

\* k = 3 (mode), 4 (depth), 5 (duration)
CalibrateHeader(id, k) ==
  id \o << \H00,\H01,\H00,\H00,\H00,\H08, k ,\H00,\H01,\H00,\H0a,\H00,\H00,\H00,\H00,\H00,\Hde,\Hcd >>

\* "{:02x}".format(v) + "000000" + 12 zero bytes
CalibrateByteValue(id, v) == id \o << \H0f, \Hff >> \o << v >> \o Zeros(3) \o Zeros(12)

CalibrateDurationValue(id, d) == id \o << \H0f, \Hff >> \o ToBytesLE4(d) \o Zeros(12)

(***************************************************************************)
(* notification_handler's decoding (lines 180-197).                        *)
(***************************************************************************)
\* binascii.b2a_hex(data)[4 : 4 + 36]: 18 bytes after a 2-byte header
NotificationBody(data) == Slice(data, 2, 20)

IsDeviceAck(data) ==
  LET tmp == NotificationBody(data)
  IN  Slice(tmp, 0, 3) \in { << \H0f, 1, 1 >>, << \H0f, 1, 2 >> }

IsTokenDelivery(data) ==
  LET tmp == NotificationBody(data)
  IN  /\ ~IsDeviceAck(data)
      /\ Slice(tmp, 0, 2) = << \H1f, \Hff >>
      /\ Slice(tmp, 3, 14) # Zeros(11)
      /\ Slice(tmp, 14, 18) = Zeros(4)

\* tmp[4 : 4 + 32]
DeliveredToken(data) == Slice(NotificationBody(data), 2, 18)

\* as Classify, but a device-ack is not recognized
Classify_AckIgnored(data) ==
  IF IsTokenDelivery(data) THEN "token-delivery" ELSE "unrecognized"

\* as Classify, but whatever is no device-ack is taken for a token-delivery
Classify_ElseToken(data) ==
  IF IsDeviceAck(data) THEN "device-ack" ELSE "token-delivery"

Classify(data) ==
  IF IsDeviceAck(data) THEN "device-ack"
  ELSE IF IsTokenDelivery(data) THEN "token-delivery"
  ELSE "unrecognized"

(***************************************************************************)
(* State.                                                                  *)
(***************************************************************************)
VARIABLES
  client,          \* per session: self._client: None, or the handle's link state
  notify,          \* per session: the callback subscribed on CHR2A89 of the handle
  token,           \* per session: self._token, the constructor's token
  token_callback,  \* per session: self._token_callback, what the token property returns
  is_on,           \* per session: self._is_on
  calibration,     \* per session: self._mode, self._depth, self._duration
  CONNECT_LOCK,    \* the module's asyncio.Lock: its holders and its FIFO of waiters
  scan,            \* the discover() coroutine's position
  task,            \* per caller coroutine: its position and locals
  handler,         \* per session: the notification_handler coroutine's position
  hs,              \* per session: what happened in the current init handshake (history)
  ev               \* the last call made on the transport, or notification received

vars == << client, notify, token, token_callback, is_on, calibration,
           CONNECT_LOCK, scan, task, handler, hs, ev >>

LinkStates == { None, "Connected", "Disconnected" }

\* sample inputs of calibrate: << depth, duration, mode >>, with durations 1000,
\* 2^32 - 1 and 0
CalibrateInputs ==
  { << 50, U32(0, 1000), "invert" >>, << 100, U32(65535, 65535), "toggle" >>,
    << 0, U32(0, 0), "normal" >>, << 50, U32(0, 1000), "bogus" >> }

\* sample notification payloads: 2 header bytes, then the body
AckPayload(v) == << 0, 0, \H0f, 1, v >> \o Fill(6, \Haa) \o Zeros(9)
TokenPayload(tok) == << 0, 0, \H1f, \Hff >> \o tok
Payloads ==
  { AckPayload(1), AckPayload(2) }
    \cup { TokenPayload(tok) : tok \in Tokens }
    \cup { << >>,                               \* empty
           << 0, 0, \H0f, 1 >>,                 \* a cut device-ack
           << 0, 0, \H1f, \Hff, 1, 1 >>,        \* a cut token-delivery
           TokenPayload(Zeros(16)),             \* all-zero middle segment
           TokenPayload(Fill(16, 7)) }          \* non-zero trailing segment

TaskActor(t) == << "task", t >>
ScanActor == << "scanner", 0 >>

NoEvent == [ api |-> "none", s |-> 0, frame |-> << >>, link |-> None, ok |-> FALSE, via |-> "none" ]

Event(api, s, frame, ok, via) ==
  [ api |-> api, s |-> s, frame |-> frame, link |-> client[s], ok |-> ok, via |-> via ]

NoCount == [ conn |-> 0, write |-> 0, sleep |-> 0, disc |-> 0 ]

IdleTask ==
  [ pc |-> "idle", op |-> "none", sess |-> 1, init |-> FALSE, retry |-> 0,
    x |-> "unset", bars |-> << >>, wi |-> 0, args |-> << >>, cmd |-> "none",
    cnt |-> NoCount, failReport |-> FALSE, outcome |-> "none" ]

IdleHandler == [ pc |-> "idle", bars |-> << >>, wi |-> 0 ]

Init ==
  /\ client = [ s \in Sessions |-> None ]
  /\ notify = [ s \in Sessions |-> "none" ]
  /\ \E tok \in Tokens : token = [ s \in Sessions |-> tok ]
  /\ token_callback = [ s \in Sessions |-> None ]
  /\ is_on = [ s \in Sessions |-> None ]
  /\ calibration = [ s \in Sessions |-> [ mode |-> 0, depth |-> 50, duration |-> U32(0, 0) ] ]
  /\ CONNECT_LOCK = [ owner |-> {}, waiters |-> << >> ]
  /\ scan = "idle"
  /\ task = [ t \in Tasks |-> IdleTask ]
  /\ handler = [ s \in Sessions |-> IdleHandler ]
  /\ hs = [ s \in Sessions |-> {} ]
  /\ ev = NoEvent

(***************************************************************************)
(* is_connected (lines 202-214): False without a handle; otherwise the     *)
(* transport's answer, and False on a timeout or any error.                *)
(***************************************************************************)
Answers == { "answer", "TimeoutError", "Exception" }

\* as is_connected, but a timeout or an error of the query counts as connected
is_connected_FailsOpen(s, a) ==
  IF client[s] = None THEN FALSE
  ELSE IF a = "answer" THEN client[s] = "Connected"
  ELSE TRUE

is_connected(s, a) ==
  IF client[s] = None THEN FALSE
  ELSE IF a = "answer" THEN client[s] = "Connected"
  ELSE FALSE

(***************************************************************************)
(* Exceptions.  A failure is raised in a region of the code; Chain lists   *)
(* the regions around it, innermost first, through the callers.  The       *)
(* regions that are try blocks with "except Exception" catch it.           *)
(***************************************************************************)
\* as TryRegions, but disconnect() has no try statement
TryRegions_DisconnectUnguarded ==
  { "_do_connect:try", "connect:try", "__initToken:try", "__setToken:try",
    "getToken:try", "push_on:try", "push_off:try", "calibrate:try" }

TryRegions ==
  { "_do_connect:try", "connect:try", "disconnect:try", "__initToken:try",
    "__setToken:try", "getToken:try", "push_on:try", "push_off:try",
    "calibrate:try" }

\* the regions of the caller around a connect() call
AroundConnect(r) ==
  << "connect:try" >> \o (IF r.op = "connect" THEN << >> ELSE << r.op \o ":head" >>)

\* the regions of the caller around a disconnect() call
AroundDisconnect(r) ==
  << "_do_disconnect:body", "disconnect:try" >>
    \o (IF r.op = "disconnect" THEN << >> ELSE << r.op \o ":tail" >>)

RECURSIVE Handler(_)
Handler(chain) ==
  IF chain = << >> THEN "caller"
  ELSE IF Head(chain) \in TryRegions THEN Head(chain)
  ELSE Handler(Tail(chain))

(***************************************************************************)
(* Control flow of a caller coroutine, as functions of its record.         *)
(***************************************************************************)
\* the operation returns to its caller
Return(r) ==
  [ r EXCEPT !.pc = "idle", !.outcome = "returned", !.bars = << >>, !.wi = 0,
             !.args = << >>, !.retry = 0 ]

\* an exception leaves the operation
Escape(r) ==
  [ r EXCEPT !.pc = "idle", !.outcome = "raised", !.bars = << >>, !.wi = 0,
             !.args = << >>, !.retry = 0 ]

\* connect() has returned (lines 253, 257: break): to the caller, or on to the
\* command's try block (lines 340, 362, 404)
AfterConnect(r) ==
  IF r.op = "connect" THEN Return(r)
  ELSE [ r EXCEPT !.pc = r.op \o ":write", !.bars = << >>, !.wi = 0 ]

\* as AfterDoConnect, but an already connected session skips __setToken
AfterDoConnect_ReturnsWhenConnected(r) ==
  IF r.x = "True" THEN AfterConnect(r)
  ELSE [ r EXCEPT !.pc = IF r.init THEN "__initToken" ELSE "__setToken:write",
                  !.bars = << >>, !.wi = 0 ]

\* _do_connect has returned (line 252): __setToken(init)
AfterDoConnect(r) ==
  [ r EXCEPT !.pc = IF r.init THEN "__initToken" ELSE "__setToken:write",
             !.bars = << >>, !.wi = 0 ]

\* connect's except clause (lines 254-260)
ConnectExcept(r) ==
  IF r.retry = 0
  THEN AfterConnect([ r EXCEPT !.failReport = TRUE ])
  ELSE [ r EXCEPT !.retry = @ - 1, !.cnt.sleep = @ + 1, !.pc = "_do_connect",
                  !.bars = << >>, !.wi = 0 ]

\* as AfterPush, but the push returns without disconnect()
AfterPush_NoDisconnect(r) ==
  [ r EXCEPT !.pc = "idle", !.outcome = "returned", !.bars = << >>, !.wi = 0,
             !.args = << >>, !.retry = 0 ]

\* the end of push_on / push_off's try statement: await self.disconnect()
AfterPush(r) == [ r EXCEPT !.pc = "disconnect", !.bars = << >>, !.wi = 0 ]

\* where a coroutine goes on after an exception raised inside `chain`
Raise(r, chain) ==
  LET h == Handler(chain)
  IN  CASE h = "_do_connect:try" -> AfterDoConnect(r)
        [] h \in { "__setToken:try", "__initToken:try" } -> AfterConnect(r)
        [] h = "connect:try" -> ConnectExcept(r)
        [] h \in { "push_on:try", "push_off:try" } -> AfterPush([ r EXCEPT !.cmd = "except" ])
        [] h = "calibrate:try" -> Return([ r EXCEPT !.cmd = "except" ])
        [] h = "disconnect:try" -> Return(r)
        [] OTHER -> Escape(r)

\* connect(init) begins (lines 244-246)
EnterConnect(r, i) ==
  [ r EXCEPT !.pc = "_do_connect", !.init = i, !.retry = DEFAULT_RETRY_COUNT ]

NewCall(o, s, a) == [ IdleTask EXCEPT !.op = o, !.sess = s, !.args = a ]

(***************************************************************************)
(* CONNECT_LOCK (line 25), an asyncio.Lock: acquire() takes a free lock    *)
(* nobody waits for, and otherwise queues; release() wakes the first.      *)
(***************************************************************************)
\* as CanAcquire, but a held lock nobody waits for is taken again
CanAcquire_IgnoresHolder == CONNECT_LOCK.waiters = << >>

CanAcquire == CONNECT_LOCK.owner = {} /\ CONNECT_LOCK.waiters = << >>

Acquired(a) == [ CONNECT_LOCK EXCEPT !.owner = @ \cup { a } ]

Queued(a) == [ CONNECT_LOCK EXCEPT !.waiters = Append(@, a) ]

\* as Released, but the lock stays with its holder
Released_Kept(a) == CONNECT_LOCK

Released(a) == [ CONNECT_LOCK EXCEPT !.owner = @ \ { a } ]

CanWake(a) ==
  /\ CONNECT_LOCK.owner = {}
  /\ CONNECT_LOCK.waiters # << >>
  /\ Head(CONNECT_LOCK.waiters) = a

Woken(a) == [ owner |-> { a }, waiters |-> Tail(CONNECT_LOCK.waiters) ]

(***************************************************************************)
(* The caller's operations begin.                                          *)
(***************************************************************************)
\* connect(init) called (lines 243-246)
connect(t, s, i) ==
  /\ task[t].pc = "idle"
  /\ task' = [ task EXCEPT ![t] = EnterConnect(NewCall("connect", s, << >>), i) ]
  /\ UNCHANGED << client, notify, token, token_callback, is_on, calibration,
                  CONNECT_LOCK, scan, handler, hs >>
  /\ ev' = NoEvent

\* the head of push_on, push_off and calibrate (lines 336-339, 358-361, 397-400):
\* x = await self.is_connected(); if x == False: await self.connect(init=False)
CommandHead(t, s, o, a) ==
  /\ task[t].pc = "idle"
  /\ \E ans \in Answers :
       task' = [ task EXCEPT ![t] =
                   IF is_connected(s, ans) = FALSE
                   THEN EnterConnect(NewCall(o, s, a), FALSE)
                   ELSE [ NewCall(o, s, a) EXCEPT !.pc = o \o ":write" ] ]
  /\ UNCHANGED << client, notify, token, token_callback, is_on, calibration,
                  CONNECT_LOCK, scan, handler, hs >>
  /\ ev' = NoEvent

push_on(t, s) == CommandHead(t, s, "push_on", << >>)

push_off(t, s) == CommandHead(t, s, "push_off", << >>)

calibrate(t, s, depth, duration, mode) ==
  CommandHead(t, s, "calibrate", << depth, duration, mode >>)

(***************************************************************************)
(* _do_connect (lines 216-237).                                            *)
(***************************************************************************)
\* establish_connection(...) is called, the lock held (line 223)
CallEstablish(r) ==
  [ r EXCEPT !.pc = "establish_connection", !.cnt.conn = @ + 1 ]

\* lines 217-221: the liveness check, then the lock
_do_connect(t) ==
  LET r == task[t]
  IN  /\ r.pc = "_do_connect"
      /\ \E ans \in Answers :
           IF is_connected(r.sess, ans)
           THEN /\ task' = [ task EXCEPT ![t] = AfterDoConnect([ r EXCEPT !.x = "True" ]) ]
                /\ UNCHANGED CONNECT_LOCK
           ELSE IF CanAcquire
           THEN /\ task' = [ task EXCEPT ![t] = CallEstablish([ r EXCEPT !.x = "False" ]) ]
                /\ CONNECT_LOCK' = Acquired(TaskActor(t))
           ELSE /\ task' = [ task EXCEPT ![t] = [ r EXCEPT !.pc = "CONNECT_LOCK", !.x = "False" ] ]
                /\ CONNECT_LOCK' = Queued(TaskActor(t))
      /\ UNCHANGED << client, notify, token, token_callback, is_on, calibration,
                      scan, handler, hs >>
      /\ ev' = NoEvent

\* line 221: the waiting coroutine gets the lock
lock_acquired(t) ==
  LET r == task[t]
  IN  /\ r.pc = "CONNECT_LOCK"
      /\ CanWake(TaskActor(t))
      /\ CONNECT_LOCK' = Woken(TaskActor(t))
      /\ task' = [ task EXCEPT ![t] = CallEstablish(r) ]
      /\ UNCHANGED << client, notify, token, token_callback, is_on, calibration,
                      scan, handler, hs >>
      /\ ev' = NoEvent

\* lines 223-232, 236-237: establish_connection returns a new client, or raises
establish_connection(t) ==
  LET r == task[t]
      s == r.sess
  IN  /\ r.pc = "establish_connection"
      /\ \E ok \in BOOLEAN :
           /\ ev' = Event("connect", s, << >>, ok, "_do_connect")
           /\ IF ok
              THEN /\ client' = [ client EXCEPT ![s] = "Connected" ]
                   /\ notify' = [ notify EXCEPT ![s] = "none" ]
                   /\ hs' = [ hs EXCEPT ![s] = {} ]
                   /\ task' = [ task EXCEPT ![t] = [ r EXCEPT !.pc = "start_notify" ] ]
                   /\ UNCHANGED CONNECT_LOCK
              ELSE /\ CONNECT_LOCK' = Released(TaskActor(t))
                   /\ task' = [ task EXCEPT ![t] =
                                  Raise(r, << "_do_connect:try" >> \o AroundConnect(r)) ]
                   /\ UNCHANGED << client, notify, hs >>
      /\ UNCHANGED << token, token_callback, is_on, calibration, scan, handler >>

\* as ConnectCallback, but the handshake's callback is subscribed
ConnectCallback_Handshake == "notification_handler"

\* line 234: the callback _do_connect subscribes
ConnectCallback == "notification_handler2"

\* lines 233-237: start_notify(CHR2A89, ConnectCallback), then the lock is left
start_notify(t) ==
  LET r == task[t]
      s == r.sess
  IN  /\ r.pc = "start_notify"
      /\ \E ok \in BOOLEAN :
           /\ ok => client[s] = "Connected"
           /\ ev' = Event("start_notify", s, << >>, ok, "_do_connect")
           /\ notify' = [ notify EXCEPT ![s] = IF ok THEN ConnectCallback ELSE @ ]
           /\ task' = [ task EXCEPT ![t] =
                          IF ok THEN AfterDoConnect(r)
                          ELSE Raise(r, << "_do_connect:try" >> \o AroundConnect(r)) ]
      /\ CONNECT_LOCK' = Released(TaskActor(t))
      /\ UNCHANGED << client, token, token_callback, is_on, calibration, scan, handler, hs >>

(***************************************************************************)
(* Writes.  All frames of a command are built before its first write       *)
(* (bars), then written one by one, each awaited.                          *)
(***************************************************************************)
\* one more write_gatt_char call has reached the transport
Counted(r, s) == IF client[s] = None THEN r ELSE [ r EXCEPT !.cnt.write = @ + 1 ]

\* as AfterWrite, but a failed write is followed by the next frame
AfterWrite_GoesOnAfterFailure(r, b, ok, done, chain) ==
  Counted(IF r.wi + 1 = Len(b) THEN done
          ELSE [ r EXCEPT !.bars = b, !.wi = @ + 1 ],
          r.sess)

\* the coroutine after its next write: on to the next frame, done, or the exception
AfterWrite(r, b, ok, done, chain) ==
  Counted(IF ok
          THEN IF r.wi + 1 = Len(b) THEN done
               ELSE [ r EXCEPT !.bars = b, !.wi = @ + 1 ]
          ELSE Raise(r, chain),
          r.sess)

\* await self._client.write_gatt_char(CHR2A89, bytearray(bar), response=True):
\* an AttributeError without a handle, a transport error on a handle that is
\* not connected, and either outcome on a connected one
write_gatt_char(s, frame, ok, via) ==
  /\ ok => client[s] = "Connected"
  /\ ev' = Event("write", s, frame, ok, via)

(***************************************************************************)
(* __setToken and __initToken (lines 276-317).                             *)
(***************************************************************************)
InitTokenChain(r) == << "__initToken:try", "__setToken:init" >> \o AroundConnect(r)

SetTokenChain(r) == << "__setToken:try" >> \o AroundConnect(r)

\* lines 279-287: the init frames are built, then start_notify(CHR2A89,
\* notification_handler)
__initToken(t) ==
  LET r == task[t]
      s == r.sess
  IN  /\ r.pc = "__initToken"
      /\ \E id \in Ids, ok \in BOOLEAN :
           /\ ok => client[s] = "Connected"
           /\ ev' = Event("start_notify", s, << >>, ok, "__initToken")
           /\ notify' = [ notify EXCEPT ![s] = IF ok THEN "notification_handler" ELSE @ ]
           /\ hs' = [ hs EXCEPT ![s] = IF ok THEN { "subscribed" } ELSE @ ]
           /\ task' = [ task EXCEPT ![t] =
                          IF ok
                          THEN [ r EXCEPT !.pc = "__initToken:write", !.wi = 0,
                                          !.bars = << InitHeader(id), InitValue(id, token[s]) >> ]
                          ELSE Raise(r, InitTokenChain(r)) ]
      /\ UNCHANGED << client, token, token_callback, is_on, calibration,
                      CONNECT_LOCK, scan, handler >>

\* lines 288-293: the init header frame, then the init value frame
__initToken_write(t) ==
  LET r == task[t]
      s == r.sess
  IN  /\ r.pc = "__initToken:write"
      /\ \E ok \in BOOLEAN :
           /\ write_gatt_char(s, r.bars[r.wi + 1], ok, "__initToken")
           /\ task' = [ task EXCEPT ![t] =
                          AfterWrite(r, r.bars, ok, AfterConnect(r), InitTokenChain(r)) ]
           /\ hs' = [ hs EXCEPT ![s] =
                        IF ok /\ r.wi + 1 = Len(r.bars) THEN @ \cup { "init-written" } ELSE @ ]
      /\ UNCHANGED << client, notify, token, token_callback, is_on, calibration,
                      CONNECT_LOCK, scan, handler >>

\* the frames __setToken(init=False) builds (lines 304-308)
SetTokenBars(id, s) == << SetTokenHeader(id), SetTokenValue(id, token[s]) >>

\* lines 302-317: the set-token header frame, then the set-token value frame
__setToken_write(t) ==
  LET r == task[t]
      s == r.sess
  IN  /\ r.pc = "__setToken:write"
      /\ \E id \in Ids, ok \in BOOLEAN :
           LET b == IF r.wi = 0 THEN SetTokenBars(id, s) ELSE r.bars
           IN  /\ write_gatt_char(s, b[r.wi + 1], ok, "__setToken")
               /\ task' = [ task EXCEPT ![t] =
                              AfterWrite(r, b, ok, AfterConnect(r), SetTokenChain(r)) ]
      /\ UNCHANGED << client, notify, token, token_callback, is_on, calibration,
                      CONNECT_LOCK, scan, handler, hs >>

(***************************************************************************)
(* push_on, push_off (lines 340-355, 362-377).                             *)
(***************************************************************************)
PushBars(id) == << PushHeader(id), PushValue(id) >>

\* the try statement of a push: `done` is the _is_on of success, `failed` the
\* _is_on its except clause sets
PushWrite(t, o, done, failed) ==
  LET r == task[t]
      s == r.sess
      chain == << o \o ":try" >>
  IN  /\ r.pc = o \o ":write"
      /\ \E id \in Ids, ok \in BOOLEAN :
           LET b == IF r.wi = 0 THEN PushBars(id) ELSE r.bars
           IN  /\ write_gatt_char(s, b[r.wi + 1], ok, o)
               /\ task' = [ task EXCEPT ![t] =
                              AfterWrite(r, b, ok, AfterPush([ r EXCEPT !.cmd = "done" ]),
                                         chain) ]
               /\ is_on' = [ is_on EXCEPT ![s] =
                               IF ok /\ r.wi + 1 = Len(b) THEN done
                               ELSE IF ~ok /\ Handler(chain) = o \o ":try" THEN failed
                               ELSE @ ]
      /\ UNCHANGED << client, notify, token, token_callback, calibration,
                      CONNECT_LOCK, scan, handler, hs >>

\* as push_on_write, but a failed push leaves _is_on unknown
push_on_write_FailsToUnknown(t) == PushWrite(t, "push_on", "True", None)

\* as push_on_write, but a push writes only while no other call is inside a
\* command on the session
push_on_write_Serialized(t) ==
  /\ \A u \in Tasks \ { t } : task[u].sess = task[t].sess => task[u].pc = "idle"
  /\ PushWrite(t, "push_on", "True", "False")

push_on_write(t) == PushWrite(t, "push_on", "True", "False")

push_off_write(t) == PushWrite(t, "push_off", "False", "True")

(***************************************************************************)
(* calibrate (lines 401-455).                                              *)
(***************************************************************************)
\* setMode (lines 387-394): an unknown mode string leaves _mode as it is
setMode(old, mode) ==
  IF mode = "normal" THEN 0
  ELSE IF mode = "invert" THEN 1
  ELSE IF mode = "toggle" THEN 2
  ELSE old

\* lines 401-403: setMode, setDepth, setDuration
Calibrated(old, args) ==
  [ mode |-> setMode(old.mode, args[3]), depth |-> args[1], duration |-> args[2] ]

\* lines 405-434
CalibrateBars(id, c) ==
  << CalibrateHeader(id, 3), CalibrateByteValue(id, c.mode),
     CalibrateHeader(id, 4), CalibrateByteValue(id, c.depth),
     CalibrateHeader(id, 5), CalibrateDurationValue(id, c.duration) >>

\* lines 401-455: the setters and the frames before the first write, then the
\* six writes
calibrate_write(t) ==
  LET r == task[t]
      s == r.sess
      c == IF r.wi = 0 THEN Calibrated(calibration[s], r.args) ELSE calibration[s]
  IN  /\ r.pc = "calibrate:write"
      /\ calibration' = [ calibration EXCEPT ![s] = c ]
      /\ \E id \in Ids, ok \in BOOLEAN :
           LET b == IF r.wi = 0 THEN CalibrateBars(id, c) ELSE r.bars
           IN  /\ write_gatt_char(s, b[r.wi + 1], ok, "calibrate")
               /\ task' = [ task EXCEPT ![t] =
                              AfterWrite(r, b, ok, Return([ r EXCEPT !.cmd = "done" ]),
                                         << "calibrate:try" >>) ]
      /\ UNCHANGED << client, notify, token, token_callback, is_on,
                      CONNECT_LOCK, scan, handler, hs >>

(***************************************************************************)
(* disconnect, _do_disconnect (lines 239-241, 262-270).                    *)
(***************************************************************************)
\* line 240: `if self.is_connected():` is not awaited: the condition is a
\* coroutine object, which is true whatever the link's state
DoDisconnectGuard(s) == TRUE

\* disconnect() run by the coroutine whose record is r (lines 262-270, 239-241):
\* the transport's disconnect is called on the handle (an AttributeError
\* without one); what is raised is logged by disconnect()
DoDisconnect(t, r) ==
  LET s == r.sess
      counted == [ r EXCEPT !.cnt.disc = @ + 1 ]
  IN  /\ IF DoDisconnectGuard(s)
         THEN \E ok \in BOOLEAN :
                /\ ok => client[s] # None
                /\ ev' = Event("disconnect", s, << >>, ok, "_do_disconnect")
                /\ client' = [ client EXCEPT ![s] = IF ok THEN "Disconnected" ELSE @ ]
                /\ notify' = [ notify EXCEPT ![s] = IF ok THEN "none" ELSE @ ]
                /\ hs' = [ hs EXCEPT ![s] = IF ok THEN {} ELSE @ ]
                /\ task' = [ task EXCEPT ![t] =
                               IF ok THEN Return(counted)
                               ELSE Raise(counted, AroundDisconnect(r)) ]
         ELSE /\ task' = [ task EXCEPT ![t] = Return(counted) ]
              /\ ev' = NoEvent
              /\ UNCHANGED << client, notify, hs >>
      /\ UNCHANGED << token, token_callback, is_on, calibration, CONNECT_LOCK,
                      scan, handler >>

\* disconnect() called by the caller
disconnect(t, s) ==
  /\ task[t].pc = "idle"
  /\ DoDisconnect(t, NewCall("disconnect", s, << >>))

\* line 355, 377: await self.disconnect() at the end of a push
_do_disconnect(t) ==
  /\ task[t].pc = "disconnect"
  /\ DoDisconnect(t, task[t])

(***************************************************************************)
(* The transport's callbacks: link loss and notifications.                 *)
(***************************************************************************)
\* the link drops; the transport calls _disconnected, which logs (lines 272-274)
_disconnected(s) ==
  /\ client[s] = "Connected"
  /\ client' = [ client EXCEPT ![s] = "Disconnected" ]
  /\ notify' = [ notify EXCEPT ![s] = "none" ]
  /\ hs' = [ hs EXCEPT ![s] = {} ]
  /\ UNCHANGED << token, token_callback, is_on, calibration, CONNECT_LOCK, scan,
                  task, handler >>
  /\ ev' = NoEvent

\* a notification while notification_handler2 is subscribed (lines 199-200): logged
notification_handler2(s, data) ==
  /\ client[s] = "Connected"
  /\ notify[s] = "notification_handler2"
  /\ ev' = Event("notification", s, data, TRUE, "notification_handler2")
  /\ UNCHANGED << client, notify, token, token_callback, is_on, calibration,
                  CONNECT_LOCK, scan, task, handler, hs >>

\* a notification while notification_handler is subscribed (lines 180-197)
notification_handler(s, data) ==
  LET kind == Classify(data)
  IN  /\ client[s] = "Connected"
      /\ notify[s] = "notification_handler"
      /\ handler[s].pc = "idle"
      /\ ev' = Event("notification", s, data, TRUE, "notification_handler")
      /\ handler' = [ handler EXCEPT ![s] =
                        IF kind = "device-ack" THEN [ @ EXCEPT !.pc = "getToken:write" ]
                        ELSE IF kind = "token-delivery" THEN [ @ EXCEPT !.pc = "stop_notify" ]
                        ELSE @ ]
      /\ token_callback' = [ token_callback EXCEPT ![s] =
                               IF kind = "token-delivery" THEN DeliveredToken(data) ELSE @ ]
      /\ hs' = [ hs EXCEPT ![s] =
                   IF kind = "device-ack" THEN @ \cup { "device-ack" }
                   ELSE IF kind = "token-delivery" THEN @ \cup { "token-stored" }
                   ELSE @ ]
      /\ UNCHANGED << client, notify, token, is_on, calibration, CONNECT_LOCK, scan, task >>

GetTokenBars(id) == << GetTokenHeader(id), GetTokenValue(id) >>

\* getToken, called by notification_handler on a device-ack (lines 319-333)
getToken_write(s) ==
  LET h == handler[s]
  IN  /\ h.pc = "getToken:write"
      /\ \E id \in Ids, ok \in BOOLEAN :
           LET b == IF h.wi = 0 THEN GetTokenBars(id) ELSE h.bars
               last == h.wi + 1 = Len(b)
           IN  /\ write_gatt_char(s, b[h.wi + 1], ok, "getToken")
               /\ handler' = [ handler EXCEPT ![s] =
                                 IF ok /\ ~last THEN [ h EXCEPT !.bars = b, !.wi = @ + 1 ]
                                 ELSE IdleHandler ]
               /\ hs' = [ hs EXCEPT ![s] = IF ok /\ last THEN @ \cup { "get-token" } ELSE @ ]
      /\ UNCHANGED << client, notify, token, token_callback, is_on, calibration,
                      CONNECT_LOCK, scan, task >>

\* line 195: await self._client.stop_notify(CHR2A89), after the token is stored
stop_notify(s) ==
  /\ handler[s].pc = "stop_notify"
  /\ \E ok \in BOOLEAN :
       /\ ok => client[s] = "Connected"
       /\ ev' = Event("stop_notify", s, << >>, ok, "notification_handler")
       /\ notify' = [ notify EXCEPT ![s] = IF ok THEN "none" ELSE @ ]
  /\ handler' = [ handler EXCEPT ![s] = IdleHandler ]
  /\ UNCHANGED << client, token, token_callback, is_on, calibration, CONNECT_LOCK,
                  scan, task, hs >>

(***************************************************************************)
(* GetMicroBotDevices.discover (lines 84-115): the scan runs under         *)
(* CONNECT_LOCK.                                                           *)
(***************************************************************************)
\* line 94: async with CONNECT_LOCK
discover ==
  /\ scan = "idle"
  /\ IF CanAcquire
     THEN /\ CONNECT_LOCK' = Acquired(ScanActor)
          /\ scan' = "scanning"
     ELSE /\ CONNECT_LOCK' = Queued(ScanActor)
          /\ scan' = "CONNECT_LOCK"
  /\ UNCHANGED << client, notify, token, token_callback, is_on, calibration,
                  task, handler, hs >>
  /\ ev' = NoEvent

\* line 94: the waiting scan gets the lock
discover_locked ==
  /\ scan = "CONNECT_LOCK"
  /\ CanWake(ScanActor)
  /\ CONNECT_LOCK' = Woken(ScanActor)
  /\ scan' = "scanning"
  /\ UNCHANGED << client, notify, token, token_callback, is_on, calibration,
                  task, handler, hs >>
  /\ ev' = NoEvent

\* lines 95-97: start, sleep(scan_timeout), stop (or an exception of one of
\* them); the lock is left
discover_done ==
  /\ scan = "scanning"
  /\ CONNECT_LOCK' = Released(ScanActor)
  /\ scan' = "idle"
  /\ UNCHANGED << client, notify, token, token_callback, is_on, calibration,
                  task, handler, hs >>
  /\ ev' = NoEvent

(***************************************************************************)
(* Specifications.                                                         *)
(***************************************************************************)
\* connect, with the steps of _do_connect and of __setToken(init=False), by the
\* coroutines TS on the sessions SS, whose links may drop
Connecting(TS, SS, Inits) ==
  \/ \E t \in TS, s \in SS, i \in Inits : connect(t, s, i)
  \/ \E t \in TS : _do_connect(t)
  \/ \E t \in TS : establish_connection(t)
  \/ \E t \in TS : start_notify(t)
  \/ \E t \in TS : __setToken_write(t)
  \/ \E s \in SS : _disconnected(s)

Disconnecting(TS, SS) ==
  \/ \E t \in TS, s \in SS : disconnect(t, s)
  \/ \E t \in TS : _do_disconnect(t)

\* the init handshake's own steps
Pairing(TS) ==
  \/ \E t \in TS : __initToken(t)
  \/ \E t \in TS : __initToken_write(t)

PushingOn(TS, SS) ==
  \/ \E t \in TS, s \in SS : push_on(t, s)
  \/ \E t \in TS : push_on_write(t)

PushingOff(TS, SS) ==
  \/ \E t \in TS, s \in SS : push_off(t, s)
  \/ \E t \in TS : push_off_write(t)

Calibrating(TS, SS) ==
  \/ \E t \in TS, s \in SS, a \in CalibrateInputs : calibrate(t, s, a[1], a[2], a[3])
  \/ \E t \in TS : calibrate_write(t)

\* what the device sends, and the notification callbacks
Notifying(SS) ==
  \/ \E s \in SS, data \in Payloads : notification_handler2(s, data)
  \/ \E s \in SS, data \in Payloads : notification_handler(s, data)
  \/ \E s \in SS : getToken_write(s)
  \/ \E s \in SS : stop_notify(s)

\* the coroutines that wait for CONNECT_LOCK, and the discovery scan
Contending(TS) ==
  \/ \E t \in TS : lock_acquired(t)
  \/ discover
  \/ discover_locked
  \/ discover_done

\* the command API: one session used by one caller at a time, a device that
\* sends no notification
Next ==
  \/ Connecting({ 1 }, { 1 }, BOOLEAN)
  \/ Disconnecting({ 1 }, { 1 })
  \/ Pairing({ 1 })
  \/ PushingOn({ 1 }, { 1 })
  \/ PushingOff({ 1 }, { 1 })
  \/ Calibrating({ 1 }, { 1 })

Spec == Init /\ [][Next]_vars

\* the handshake: one session used by one caller at a time, and the device's
\* notifications
NextHandshake ==
  \/ Connecting({ 1 }, { 1 }, BOOLEAN)
  \/ Disconnecting({ 1 }, { 1 })
  \/ Pairing({ 1 })
  \/ PushingOn({ 1 }, { 1 })
  \/ Notifying({ 1 })

SpecHandshake == Init /\ [][NextHandshake]_vars

\* the process: every session, concurrent callers and the discovery scan
NextProcess ==
  \/ Connecting(Tasks, Sessions, { FALSE })
  \/ Contending(Tasks)

SpecProcess == Init /\ [][NextProcess]_vars

\* the device acknowledges the init frames, and getToken runs
Acking(SS) ==
  \/ \E s \in SS : notification_handler(s, AckPayload(1))
  \/ \E s \in SS : getToken_write(s)

\* the commands' frames: every command that writes, on one session
NextFrames ==
  \/ Connecting({ 1 }, { 1 }, BOOLEAN)
  \/ Disconnecting({ 1 }, { 1 })
  \/ Pairing({ 1 })
  \/ PushingOn({ 1 }, { 1 })
  \/ Calibrating({ 1 }, { 1 })
  \/ Acking({ 1 })

SpecFrames == Init /\ [][NextFrames]_vars

\* the event loop runs every coroutine that is ready, and every call on the
\* transport returns or raises: each started connect() and scan goes on
SpecProcessFair ==
  /\ Init
  /\ [][NextProcess]_vars
  /\ \A t \in Tasks :
       /\ WF_vars(_do_connect(t))
       /\ WF_vars(lock_acquired(t))
       /\ WF_vars(establish_connection(t))
       /\ WF_vars(start_notify(t))
       /\ WF_vars(__setToken_write(t))
  /\ WF_vars(discover_locked)
  /\ WF_vars(discover_done)

\* pushes of concurrent callers on one session
NextRace ==
  \E t \in Tasks :
    \/ push_on(t, 1)
    \/ push_off(t, 1)
    \/ _do_connect(t)
    \/ lock_acquired(t)
    \/ establish_connection(t)
    \/ start_notify(t)
    \/ __setToken_write(t)
    \/ push_on_write(t)
    \/ push_off_write(t)
    \/ _do_disconnect(t)

SpecRace == Init /\ [][NextRace]_vars

\* pairing: connect on one session and the device's notifications
NextPairing ==
  \/ Connecting({ 1 }, { 1 }, BOOLEAN)
  \/ Pairing({ 1 })
  \/ Notifying({ 1 })

\* the event loop runs every coroutine that is ready, and every call on the
\* transport returns or raises: a started getToken and a pending stop_notify
\* go on
SpecPairing ==
  /\ Init
  /\ [][NextPairing]_vars
  /\ WF_vars(getToken_write(1))
  /\ WF_vars(stop_notify(1))

(***************************************************************************)
(* The claims.                                                             *)
(***************************************************************************)
CommandFunctions == { "push_on", "push_off", "calibrate" }

\* C1: a command frame write issued by push_on, push_off or calibrate is
\* attempted only on a handle that is Connected (never on a missing or a
\* disconnected one).  The code goes on to write after a connect() that
\* failed: this statement is violated.
C1_CommandWritesOnlyWhileConnected ==
  (ev.api = "write" /\ ev.via \in CommandFunctions) => ev.link = "Connected"

\* a connect(init=False) whose _do_connect found the session connected
ConnectedConnect(r) == r.op = "connect" /\ ~r.init /\ r.x = "True"

C3_PushSetsIsOn ==
  \A t \in Tasks :
    LET r == task[t]
    IN  /\ (r.pc = "disconnect" /\ ev.api = "write" /\ ev.via = r.op) =>
             /\ r.cmd = (IF ev.ok THEN "done" ELSE "except")
             /\ ev.ok => r.cnt.write >= 2
        /\ (r.pc \in { "disconnect", "idle" } /\ r.op = "push_on") =>
             is_on[r.sess] = (IF r.cmd = "done" THEN "True" ELSE "False")
        /\ (r.pc \in { "disconnect", "idle" } /\ r.op = "push_off") =>
             is_on[r.sess] = (IF r.cmd = "done" THEN "False" ELSE "True")

\* C3's case: push_on has returned after its value frame write failed
C3_Witness ==
  \E t \in Tasks :
    /\ task[t].op = "push_on"
    /\ task[t].pc = "idle"
    /\ task[t].outcome = "returned"
    /\ task[t].cmd = "except"
    /\ task[t].cnt.write = 2
    /\ client[task[t].sess] # None
    /\ is_on[task[t].sess] = "False"

\* C4: a connect() all of whose transport connects failed returns after
\* exactly DEFAULT_RETRY_COUNT attempts, with a backoff between every two, and
\* a final failure report.  _do_connect swallows the failure, so connect()
\* never retries: this statement is violated.
C4_FiveAttemptsThenFailureReport ==
  \A t \in Tasks :
    LET r == task[t]
    IN  (r.op = "connect" /\ r.pc = "idle" /\ r.outcome = "returned"
           /\ client[r.sess] = None) =>
          /\ r.cnt.conn = DEFAULT_RETRY_COUNT
          /\ r.cnt.sleep = DEFAULT_RETRY_COUNT - 1
          /\ r.failReport

\* the coroutines inside the transport's connect
InFlight == { t \in Tasks : task[t].pc = "establish_connection" }

\* C5: at most one transport connection attempt is in flight in the process,
\* and none while a discovery scan runs.
C5_OneConnectionAttemptInFlight ==
  Cardinality(InFlight) + (IF scan = "scanning" THEN 1 ELSE 0) <= 1

\* C5's case: one session connects while another session's connect and a scan
\* wait for the lock
C5_Witness ==
  \E t, u \in Tasks :
    /\ task[t].pc = "establish_connection"
    /\ task[u].pc = "CONNECT_LOCK"
    /\ task[t].sess # task[u].sess
    /\ scan = "CONNECT_LOCK"

\* C6: no operation ends with an exception raised to its caller, whatever
\* fails in the transport.
C6_NothingRaised == \A t \in Tasks : task[t].outcome # "raised"

\* C6's case: a push_on without a handle: its connect failed, its write and
\* its disconnect raised, and it has returned
C6_Witness ==
  \E t \in Tasks :
    /\ task[t].op = "push_on"
    /\ task[t].pc = "idle"
    /\ task[t].outcome = "returned"
    /\ task[t].cmd = "except"
    /\ task[t].cnt.conn = 1
    /\ client[task[t].sess] = None
    /\ ev.api = "disconnect" /\ ~ev.ok

\* C7: disconnect() on a session that is not connected calls no transport
\* disconnect: the transport's disconnect is only called on a Connected
\* handle.  _do_disconnect does not await is_connected(), so a disconnected
\* handle is disconnected again: this statement is violated.  (Without a
\* handle no transport call is made: link = None.)
C7_DisconnectOnlyWhenConnected ==
  (ev.api = "disconnect" /\ ev.link # None) => ev.link = "Connected"

\* C8: a push calls disconnect() exactly once, at its end and after its try
\* statement has ended either way; on a handle the transport's disconnect
\* brings the link down.  calibrate never calls disconnect(), and the link its
\* last write was acknowledged on is up when it returns.
C8_PushEndsWithDisconnect ==
  \A t \in Tasks :
    LET r == task[t]
    IN  /\ r.op \in { "push_on", "push_off" } =>
             /\ r.cnt.disc = (IF r.pc = "idle" THEN 1 ELSE 0)
             /\ r.pc = "idle" =>
                  /\ r.outcome = "returned"
                  /\ r.cmd # "none"
                  /\ (ev.api = "disconnect" /\ ev.ok) => client[r.sess] = "Disconnected"
        /\ r.op = "calibrate" =>
             /\ r.cnt.disc = 0
             /\ ev.api # "disconnect"
             /\ (r.pc = "idle" /\ ev.api = "write" /\ ev.ok) =>
                  client[r.sess] = "Connected"

\* C8's case: a push_on whose write failed has disconnected the connected link
C8_Witness ==
  \E t \in Tasks :
    /\ task[t].op = "push_on"
    /\ task[t].pc = "idle"
    /\ task[t].cmd = "except"
    /\ task[t].cnt.disc = 1
    /\ ev.api = "disconnect" /\ ev.ok /\ ev.link = "Connected"

\* the coroutines that have just built their set-token frames and written the
\* header frame (lines 304-311)
SetTokenBuilt ==
  { t \in Tasks : /\ task[t].pc = "__setToken:write"
                  /\ task[t].wi = 1
                  /\ ev.api = "write" /\ ev.via = "__setToken" /\ ev.s = task[t].sess }

\* C9: once a token was delivered, the set-token value frame built by every
\* later connect(init=False) embeds the delivered token.  The delivered token
\* goes to _token_callback and the frames embed _token: this statement is
\* violated.
C9_SetTokenEmbedsDeliveredToken ==
  \A t \in SetTokenBuilt :
    token_callback[task[t].sess] # None =>
      task[t].bars[2] = SetTokenValue(SubSeq(ev.frame, 1, 2), token_callback[task[t].sess])

\* C10, as stated: a token is stored only after, in that handshake, the init
\* frames were written, a device-ack was received and get-token was issued.
\* notification_handler keeps no state: this statement is violated.
C10_TokenOnlyAfterAckAndGetToken ==
  \A s \in Sessions :
    "token-stored" \in hs[s] =>
      { "subscribed", "init-written", "device-ack", "get-token" } \subseteq hs[s]

\* C10, amended: a token is stored only after the init handshake subscribed
\* notification_handler; the init frames, the device-ack and get-token need
\* not have happened.
C10_TokenOnlyAfterSubscription ==
  \A s \in Sessions : "token-stored" \in hs[s] => "subscribed" \in hs[s]

\* C10's case: a token stored after the whole sequence
C10_Witness ==
  \E s \in Sessions :
    /\ hs[s] = { "subscribed", "init-written", "device-ack", "get-token", "token-stored" }
    /\ token_callback[s] # None
    /\ ev.api = "stop_notify" /\ ev.ok

\* the last transport event is a device-ack handed to notification_handler
AckReceived ==
  ev.api = "notification" /\ ev.via = "notification_handler" /\ IsDeviceAck(ev.frame)

\* the last transport event is a token-delivery handed to notification_handler
TokenReceived ==
  /\ ev.api = "notification" /\ ev.via = "notification_handler"
  /\ ~IsDeviceAck(ev.frame) /\ IsTokenDelivery(ev.frame)

\* getToken has written its value frame, or one of its writes failed
GetTokenEnded ==
  /\ ev.api = "write" /\ ev.via = "getToken"
  /\ ev.ok => \E id \in Ids : ev.frame = GetTokenValue(id)

\* C11: in connect(init=True) the init frames are written only after the
\* subscription to notifications succeeded; every device-ack is followed by
\* exactly one getToken, whose header and value frames are written unless a
\* write fails; a token-delivery stores the delivered token at once and is
\* followed by the stop_notify call.
C11_InitHandshakeProgress ==
  /\ [][ /\ \A t \in Tasks :
              (task'[t].pc = "__initToken:write" /\ task[t].pc # "__initToken:write") =>
                (ev'.api = "start_notify" /\ ev'.ok /\ ev'.via = "__initToken")
         /\ (ev'.api = "write" /\ ev'.via = "__initToken") =>
              \E t \in Tasks : task[t].pc = "__initToken:write" /\ task[t].sess = ev'.s ]_vars
  /\ [][ \A s \in Sessions :
           /\ (ev'.api = "write" /\ ev'.via = "getToken" /\ ev'.s = s /\ handler[s].wi = 0) =>
                AckReceived \/ handler[s].pc = "getToken:write"
           /\ (handler'[s].pc = "getToken:write" /\ handler[s].pc # "getToken:write") =>
                AckReceived' ]_vars
  /\ [](TokenReceived =>
          /\ token_callback[ev.s] = DeliveredToken(ev.frame)
          /\ handler[ev.s].pc = "stop_notify")
  /\ (AckReceived ~> GetTokenEnded)
  /\ (TokenReceived ~> (ev.api = "stop_notify" /\ ev.via = "notification_handler"))

\* C11's case: after the init frames and a device-ack, getToken's value frame
\* has been written
C11_Witness ==
  /\ GetTokenEnded /\ ev.ok
  /\ { "subscribed", "init-written", "device-ack" } \subseteq hs[ev.s]
  /\ handler[ev.s].pc = "idle"

\* the payload matches neither pattern of notification_handler
Unrecognized(data) == ~IsDeviceAck(data) /\ ~IsTokenDelivery(data)

\* C12: a notification that is neither a device-ack nor a token-delivery, cut
\* and empty payloads included, is classified unrecognized and its handling
\* changes nothing: no coroutine is started and no frame written, the
\* subscription, the tokens, is_on and the calibration profile stay as they are.
C12_UnrecognizedChangesNothing ==
  [][ (ev'.api = "notification" /\ Unrecognized(ev'.frame)) =>
        /\ Classify(ev'.frame) = "unrecognized"
        /\ UNCHANGED << client, notify, token, token_callback, is_on, calibration,
                        CONNECT_LOCK, scan, task, handler, hs >> ]_vars

\* C12's case: a cut token-delivery arrives in the middle of a handshake, after
\* an earlier push set is_on
C12_Witness ==
  /\ ev.api = "notification" /\ ev.via = "notification_handler"
  /\ ev.frame = << 0, 0, \H1f, \Hff, 1, 1 >>
  /\ { "subscribed", "init-written" } \subseteq hs[ev.s]
  /\ notify[ev.s] = "notification_handler"
  /\ is_on[ev.s] # None

ValidModes == { "normal", "invert", "toggle" }

\* the byte the three mode names stand for
ModeByte(mode) == CASE mode = "normal" -> 0 [] mode = "invert" -> 1 [] mode = "toggle" -> 2

\* frame f is what a calibrate(depth, duration, mode) with arguments a writes
\* as its k-th frame: 18 bytes after the 2-byte transaction id
IsCalibrateFrame(f, k, a) ==
  /\ Len(f) = 20
  /\ IF k \in { 1, 3, 5 }
     THEN SubSeq(f, 3, 20) =
            << 0, 1, 0, 0, 0, 8, (k + 5) \div 2, 0, 1, 0, 10, 0, 0, 0, 0, 0, \Hde, \Hcd >>
     ELSE /\ SubSeq(f, 3, 4) = << \H0f, \Hff >>
          /\ SubSeq(f, 9, 20) = Zeros(12)
          /\ k = 2 => SubSeq(f, 5, 8) = << ModeByte(a[3]), 0, 0, 0 >>
          /\ k = 4 => SubSeq(f, 5, 8) = << a[1], 0, 0, 0 >>
          /\ k = 6 => /\ f[5] + 256 * f[6] = a[2][2]
                      /\ f[7] + 256 * f[8] = a[2][1]

\* C13: a calibrate with a valid mode writes, as long as its writes succeed,
\* the mode header, mode value, depth header, depth value, duration header and
\* duration value frames in that order, all with the transaction id of the
\* first, with the mode as 0/1/2, the depth as one byte and the duration as
\* four little-endian bytes; after the sixth it returns.
C13_CalibrateSixFrames ==
  [][ \A t \in Tasks :
        LET r == task[t]
            k == r.wi + 1
        IN  (/\ r.pc = "calibrate:write" /\ r.args[3] \in ValidModes
             /\ ev'.api = "write" /\ ev'.via = "calibrate" /\ task'[t] # r) =>
              /\ k <= 6
              /\ IsCalibrateFrame(ev'.frame, k, r.args)
              /\ k > 1 => SubSeq(ev'.frame, 1, 2) = SubSeq(r.bars[1], 1, 2)
              /\ (ev'.ok /\ k < 6) =>
                   task'[t].pc = "calibrate:write" /\ task'[t].wi = k
              /\ (ev'.ok /\ k = 6) =>
                   /\ task'[t].pc = "idle" /\ task'[t].outcome = "returned"
                   /\ task'[t].cmd = "done"
                   /\ calibration'[r.sess] =
                        [ mode |-> ModeByte(r.args[3]), depth |-> r.args[1],
                          duration |-> r.args[2] ] ]_vars

\* C13's case: calibrate(50, 1000, "invert") has returned after its sixth
\* write, the duration value e8 03 00 00
C13_Witness ==
  \E t \in Tasks :
    /\ task[t].op = "calibrate" /\ task[t].pc = "idle" /\ task[t].cmd = "done"
    /\ ev.api = "write" /\ ev.via = "calibrate" /\ ev.ok
    /\ SubSeq(ev.frame, 5, 8) = << \He8, 3, 0, 0 >>
    /\ calibration[task[t].sess] = [ mode |-> 1, depth |-> 50, duration |-> U32(0, 1000) ]

\* the number of frames of the command written by the function `via`
FrameCount(via) == IF via = "calibrate" THEN 6 ELSE 2

\* C14: the frames of one command are written one at a time: frame k + 1 is
\* written only by the coroutine that has had frame k acknowledged, it is the
\* frame built before the first write, and after a failed write the coroutine
\* leaves the command without writing another of its frames.
C14_FramesInSequence ==
  [][ /\ \A t \in Tasks :
           LET r == task[t]
               k == r.wi + 1
               n == FrameCount(ev'.via)
           IN  /\ (ev'.api = "write" /\ ev'.via # "getToken" /\ task'[t] # r) =>
                    /\ k <= n
                    /\ k > 1 => (Len(r.bars) = n /\ ev'.frame = r.bars[k])
                    /\ ~ev'.ok => (task'[t].pc # r.pc /\ task'[t].wi = 0)
                    /\ (ev'.ok /\ k < n) =>
                         /\ task'[t].pc = r.pc /\ task'[t].wi = k
                         /\ Len(task'[t].bars) = n /\ task'[t].bars[k] = ev'.frame
                    /\ (ev'.ok /\ k = n) => (task'[t].pc # r.pc /\ task'[t].wi = 0)
               /\ (task'[t].wi # r.wi /\ task'[t].wi > 0) =>
                    (ev'.api = "write" /\ ev'.ok /\ task'[t].wi = k)
      /\ \A s \in Sessions :
           LET h == handler[s]
               k == h.wi + 1
           IN  /\ (ev'.api = "write" /\ ev'.via = "getToken" /\ ev'.s = s) =>
                    /\ h.pc = "getToken:write" /\ k <= 2
                    /\ k > 1 => ev'.frame = h.bars[k]
                    /\ ~ev'.ok => handler'[s] = IdleHandler
                    /\ (ev'.ok /\ k < 2) =>
                         (handler'[s].pc = h.pc /\ handler'[s].wi = k)
                    /\ (ev'.ok /\ k = 2) => handler'[s] = IdleHandler
               /\ (handler'[s].wi # h.wi /\ handler'[s].wi > 0) =>
                    (ev'.api = "write" /\ ev'.ok /\ handler'[s].wi = k) ]_vars

\* C14's case: calibrate's third write, the depth header, failed after two
\* acknowledged writes, and calibrate has returned
C14_Witness ==
  \E t \in Tasks :
    /\ task[t].op = "calibrate" /\ task[t].pc = "idle" /\ task[t].cmd = "except"
    /\ ev.api = "write" /\ ev.via = "calibrate" /\ ~ev.ok
    /\ ev.link = "Connected"
    /\ Len(ev.frame) = 20 /\ ev.frame[9] = 4

\* C15: a calibrate called with a mode string that is none of normal, invert,
\* toggle stores the mode 0 and writes 0x00 in its mode value frame, whatever
\* the mode was before.  setMode has no branch for other strings and leaves
\* _mode as it was: this statement is violated.
C15_UnknownModeIsNormal ==
  \A t \in Tasks :
    LET r == task[t]
    IN  (r.pc = "calibrate:write" /\ r.wi >= 1 /\ r.args[3] \notin ValidModes) =>
          /\ calibration[r.sess].mode = 0
          /\ r.bars[2][5] = 0

\* C16: a write of the handshake (set-token or init frames) that fails on a
\* connected link makes connect() take its except clause: it backs off and
\* runs _do_connect again with one retry less, or reports the failure when
\* none is left.  __setToken
\* and __initToken catch the failure themselves, so connect() returns without
\* a retry: this statement is violated.
C16_HandshakeFailureRetriesConnect ==
  \A t \in Tasks :
    LET r == task[t]
    IN  (/\ r.op = "connect" /\ ev.s = r.sess
         /\ ev.api = "write" /\ ~ev.ok /\ ev.link = "Connected"
         /\ ev.via \in { "__setToken", "__initToken" }) =>
          \/ r.pc = "_do_connect" /\ r.cnt.sleep >= 1 /\ r.retry < DEFAULT_RETRY_COUNT
          \/ r.failReport

\* C17: is_connected() always returns a boolean, and True only with a handle
\* whose liveness query answered true, without timeout or error; so a command
\* skips connect(), and _do_connect skips the transport connect, only on a
\* Connected handle.
C17_IsConnectedFailsClosed ==
  /\ [](\A s \in Sessions, a \in Answers :
          /\ is_connected(s, a) \in BOOLEAN
          /\ is_connected(s, a) => (client[s] = "Connected" /\ a = "answer")
          /\ (client[s] = "Connected" /\ a = "answer") => is_connected(s, a))
  /\ [][ \A t \in Tasks :
           /\ (task[t].pc = "idle" /\ task'[t].pc \in { o \o ":write" : o \in CommandFunctions }) =>
                client[task'[t].sess] = "Connected"
           /\ (task[t].pc = "_do_connect" /\ task'[t].x = "True") =>
                client[task[t].sess] = "Connected" ]_vars

\* C17's case: a push_on that found the session connected goes straight to its
\* writes, while a timeout of the same query would have answered False
C17_Witness ==
  \E t \in Tasks :
    /\ task[t].op = "push_on" /\ task[t].pc = "push_on:write" /\ task[t].wi = 0
    /\ task[t].cnt.conn = 0 /\ task[t].x = "unset"
    /\ is_connected(task[t].sess, "answer")
    /\ ~is_connected(task[t].sess, "TimeoutError")
    /\ ~is_connected(task[t].sess, "Exception")

\* C18: the session does not serialize the commands of concurrent callers: a
\* call that is about to write a frame or to disconnect never waits for the
\* other call, and CONNECT_LOCK is held by no call that is past its transport
\* connect.
C18_CommandsNotSerialized ==
  \A t \in Tasks :
    /\ task[t].pc = "push_on:write" => ENABLED push_on_write(t)
    /\ task[t].pc = "push_off:write" => ENABLED push_off_write(t)
    /\ task[t].pc = "disconnect" => ENABLED _do_disconnect(t)
    /\ task[t].pc \in { "push_on:write", "push_off:write", "disconnect" } =>
         TaskActor(t) \notin CONNECT_LOCK.owner

\* two overlapping pushes have both written their header frame and neither its
\* value frame
PushesInterleaved ==
  \E t, u \in Tasks :
    /\ t # u /\ task[t].sess = task[u].sess
    /\ task[t].pc = "push_on:write" /\ task[t].wi = 1
    /\ task[u].pc = "push_off:write" /\ task[u].wi = 1

\* C18's case: one push has written both frames and disconnected the link
\* while the other is between its header and its value frame
C18_Witness ==
  \E t, u \in Tasks :
    /\ t # u /\ task[t].sess = task[u].sess
    /\ task[t].pc = "push_on:write" /\ task[t].wi = 1
    /\ task[u].op = "push_off" /\ task[u].pc = "idle" /\ task[u].cmd = "done"
    /\ ev.api = "disconnect" /\ ev.ok /\ ev.link = "Connected"
    /\ client[task[t].sess] = "Disconnected"

\* C19: when two connect() calls overlap on one session and the first has
\* connected, the other, which waited for CONNECT_LOCK, makes no transport
\* connect of its own on the live handle.  _do_connect does not look at the
\* link again once it has the lock: this statement is violated.
C19_WaiterDoesNotReconnect ==
  [][ \A t, u \in Tasks :
        (/\ t # u /\ task[t].sess = task[u].sess
         /\ task[u].op = "connect" /\ task[u].cnt.conn = 1
         /\ task[u].pc \in { "__setToken:write", "idle" }
         /\ client[task[u].sess] = "Connected"
         /\ task[t].pc = "CONNECT_LOCK") =>
          task'[t].pc # "establish_connection" ]_vars

\* the coroutines inside `async with CONNECT_LOCK`
InsideLock ==
  { TaskActor(t) : t \in { u \in Tasks : task[u].pc \in { "establish_connection", "start_notify" } } }
    \cup (IF scan = "scanning" THEN { ScanActor } ELSE {})

\* C20: CONNECT_LOCK is held exactly by the coroutine inside a transport
\* connect or a scan, and is free once that ends, on success and on failure;
\* every coroutine waiting for the lock gets it, and every connect() call
\* returns, after a single transport connect.
C20_LockReleasedAndConnectTerminates ==
  /\ [](CONNECT_LOCK.owner = InsideLock /\ Cardinality(CONNECT_LOCK.owner) <= 1)
  /\ [](\A t \in Tasks : task[t].cnt.conn <= 1 /\ task[t].cnt.sleep = 0)
  /\ \A t \in Tasks : (task[t].pc = "CONNECT_LOCK") ~> (task[t].pc = "establish_connection")
  /\ \A t \in Tasks : (task[t].pc # "idle") ~> (task[t].pc = "idle" /\ task[t].outcome = "returned")
  /\ (scan = "CONNECT_LOCK") ~> (scan = "scanning")
  /\ (scan = "scanning") ~> (scan = "idle")

\* C20's case: a transport connect has failed and left the lock free for the
\* coroutines that wait for it, a scan among them
C20_Witness ==
  /\ ev.api = "connect" /\ ~ev.ok
  /\ CONNECT_LOCK.owner = {}
  /\ Len(CONNECT_LOCK.waiters) = 2
  /\ scan = "CONNECT_LOCK"

====
